---- MODULE Spec2Model ----
(***************************************************************************)
(* Bron-Kerbosch maximal clique enumeration with pivoting, as implemented  *)
(* by class Graph of bron_kerbosch.cc.  The recursion of bron_kerbosch is  *)
(* modelled by an explicit stack of frames; every frame holds the three    *)
(* sets R, P, X the call works on, and the locals of its branching loop.   *)
(***************************************************************************)
EXTENDS Integers, FiniteSets, Sequences

VARIABLES
    num_vertices,   \* Graph::num_vertices
    adj_matrix,     \* Graph::adj_matrix, adj_matrix[u][v] \in BOOLEAN
    pc,             \* "build": edges are being added; "search": inside
                    \* find_max_cliques; "done": find_max_cliques returned
    stack,          \* the active calls of bron_kerbosch, outermost first
    cliques,        \* the vector 'cliques' of find_max_cliques
    ignored         \* history: some add_edge call failed the bounds check

vars == <<num_vertices, adj_matrix, pc, stack, cliques, ignored>>

\* Largest vertex count the graphs are built with.
MaxN == 4

Vertices == 0 .. (num_vertices - 1)

\* The arguments the driver passes to add_edge: every vertex, and one index
\* off each end of the range.
Args == -1 .. num_vertices

Min(S) == CHOOSE x \in S : \A y \in S : x <= y

----------------------------------------------------------------------------
\* Adjacency store

InRange(u, v) == u >= 0 /\ u < num_vertices /\ v >= 0 /\ v < num_vertices

is_neighbor(u, v) == adj_matrix[u][v]

get_neighbors(v) == {i \in Vertices : adj_matrix[v][i]}

degree(u) == Cardinality({i \in Vertices : adj_matrix[u][i]})

\* Graph(n): n vertices, no edges.
Graph(n) ==
    /\ num_vertices = n
    /\ adj_matrix = [u \in 0 .. (n - 1) |-> [v \in 0 .. (n - 1) |-> FALSE]]

\* A bounds check that clamps the indices into range instead of rejecting.
add_edge_clamped(u, v) ==
    LET cl(i) == IF i < 0 THEN 0 ELSE IF i >= num_vertices THEN num_vertices - 1 ELSE i
    IN  /\ pc = "build"
        /\ num_vertices > 0
        /\ adj_matrix' = [adj_matrix EXCEPT ![cl(u)][cl(v)] = TRUE,
                                            ![cl(v)][cl(u)] = TRUE]
        /\ ignored' = (ignored \/ ~InRange(u, v))
        /\ UNCHANGED <<num_vertices, pc, stack, cliques>>

add_edge(u, v) ==
    /\ pc = "build"
    /\ IF InRange(u, v)
       THEN /\ adj_matrix' = [adj_matrix EXCEPT ![u][v] = TRUE, ![v][u] = TRUE]
            /\ UNCHANGED ignored
       ELSE /\ UNCHANGED adj_matrix
            /\ ignored' = TRUE
    /\ UNCHANGED <<num_vertices, pc, stack, cliques>>

----------------------------------------------------------------------------
\* Frames of bron_kerbosch

\* A frame at entry: R, P, X are the arguments; P0, X0 remember them (history).
\* u is the pivot, P_minus_N the branching set, todo the part of it the loop
\* has not visited yet, v the loop variable (-1 while unset).
Frame(R, P, X) ==
    [R |-> R, P |-> P, X |-> X, u |-> -1, P_minus_N |-> {}, todo |-> {},
     v |-> -1, at |-> "entry", P0 |-> P, X0 |-> X]

Top == stack[Len(stack)]

SetTop(f) == [stack EXCEPT ![Len(stack)] = f]

\* The top call returns: to its caller, which resumes after the call (line
\* 95), or to find_max_cliques, which returns the cliques.
Return(stk) ==
    IF Len(stk) = 1
    THEN /\ stack' = <<>>
         /\ pc' = "done"
    ELSE /\ stack' = [SubSeq(stk, 1, Len(stk) - 1) EXCEPT ![Len(stk) - 1].at = "after"]
         /\ pc' = pc

\* find_max_cliques without the test of num_vertices.
find_max_cliques_unguarded ==
    /\ pc = "build"
    /\ cliques' = <<>>
    /\ stack' = <<Frame({}, Vertices, {})>>
    /\ pc' = "search"
    /\ UNCHANGED <<num_vertices, adj_matrix, ignored>>

find_max_cliques ==
    /\ pc = "build"
    /\ cliques' = <<>>
    /\ IF num_vertices > 0
       THEN /\ stack' = <<Frame({}, Vertices, {})>>
            /\ pc' = "search"
       ELSE /\ stack' = <<>>
            /\ pc' = "done"
    /\ UNCHANGED <<num_vertices, adj_matrix, ignored>>

\* Lines 62-65.
RecordClique ==
    /\ pc = "search"
    /\ Top.at = "entry"
    /\ Top.P = {} /\ Top.X = {}
    /\ cliques' = Append(cliques, Top.R)
    /\ Return(stack)
    /\ UNCHANGED <<num_vertices, adj_matrix, ignored>>

\* Lines 66-68.
ReturnNoCandidate ==
    /\ pc = "search"
    /\ Top.at = "entry"
    /\ Top.P = {} /\ Top.X # {}
    /\ Return(stack)
    /\ UNCHANGED <<num_vertices, adj_matrix, cliques, ignored>>

\* Lines 69-74: u = *P.begin(), then the loop over P in ascending order;
\* scan[i] is u once the loop has passed vertex i.
pivot(P, X) ==
    LET better[u \in Vertices, v \in Vertices] ==
            IF v \notin X /\ degree(v) > degree(u) THEN v ELSE u
        scan[i \in -1 .. (num_vertices - 1)] ==
            IF i = -1 THEN Min(P)
            ELSE IF i \in P THEN better[scan[i - 1], i] ELSE scan[i - 1]
    IN  scan[num_vertices - 1]

\* Lines 75-79, leaving the pivot itself out of the branching set.
branch_set_without_pivot(P, u) == {v \in P : ~is_neighbor(v, u) /\ v # u}

\* Lines 75-79.
branch_set(P, u) == {v \in P : ~is_neighbor(v, u)}

\* The vertices of P of maximum degree in the whole graph; the scan of lines
\* 69-74 takes the lowest of them.
pivot_choices(P) == {u \in P : \A w \in P : degree(w) <= degree(u)}

\* Lines 69-79 with pivot u.
SelectPivot(u) ==
    /\ pc = "search"
    /\ Top.at = "entry"
    /\ Top.P # {}
    /\ u \in Top.P
    /\ stack' = SetTop([Top EXCEPT !.u = u,
                                   !.P_minus_N = branch_set(Top.P, u),
                                   !.todo = branch_set(Top.P, u),
                                   !.at = "loop"])
    /\ UNCHANGED <<num_vertices, adj_matrix, pc, cliques, ignored>>

\* Line 82-83 without the insert.
child_R_unchanged(R, v) == R

\* Lines 82-83.
child_R(R, v) == R \cup {v}

\* Lines 85-88 passing P on whole: the candidates never shrink.
child_P_same(P, v) == P

\* Lines 85-88 without the test of adjacency to v.
child_P_unrestricted(P, v) == P \ {v}

\* Lines 84-92.
child_P(P, v) == {nb \in get_neighbors(v) : nb \in P}

\* Lines 89-91 without the test of adjacency to v.
child_X_unrestricted(X, v) == X

child_X(X, v) == {nb \in get_neighbors(v) : nb \in X}

\* Lines 81-94: the loop takes v from P_minus_N and calls bron_kerbosch.
Branch(v) ==
    /\ pc = "search"
    /\ Top.at = "loop"
    /\ Top.todo # {}
    /\ v \in Top.todo
    /\ stack' = Append(SetTop([Top EXCEPT !.v = v, !.at = "call"]),
                       Frame(child_R(Top.R, v), child_P(Top.P, v), child_X(Top.X, v)))
    /\ UNCHANGED <<num_vertices, adj_matrix, pc, cliques, ignored>>

\* Lines 95-96 without the insert into X.
move_to_X_dropped(f) ==
    [f EXCEPT !.P = f.P \ {f.v}, !.todo = f.todo \ {f.v}, !.at = "loop"]

\* Lines 95-96, and the loop's step to the next element.
move_to_X(f) ==
    [f EXCEPT !.P = f.P \ {f.v}, !.X = f.X \cup {f.v},
              !.todo = f.todo \ {f.v}, !.at = "loop"]

AfterChild ==
    /\ pc = "search"
    /\ Top.at = "after"
    /\ stack' = SetTop(move_to_X(Top))
    /\ UNCHANGED <<num_vertices, adj_matrix, pc, cliques, ignored>>

\* Lines 97-98: the loop is over, the call returns.
LoopEnd ==
    /\ pc = "search"
    /\ Top.at = "loop"
    /\ Top.todo = {}
    /\ Return(stack)
    /\ UNCHANGED <<num_vertices, adj_matrix, cliques, ignored>>

----------------------------------------------------------------------------
\* Specifications

Init ==
    /\ \E n \in 0 .. MaxN : Graph(n)
    /\ pc = "build"
    /\ stack = <<>>
    /\ cliques = <<>>
    /\ ignored = FALSE

\* The steps of the search as the code takes them: the pivot of lines 69-74,
\* the branching set in ascending order.
SearchStep ==
    \/ RecordClique
    \/ ReturnNoCandidate
    \/ SelectPivot(pivot(Top.P, Top.X))
    \/ Branch(Min(Top.todo))
    \/ AfterChild
    \/ LoopEnd

Next ==
    \/ \E u, v \in Args : add_edge(u, v)
    \/ find_max_cliques
    \/ SearchStep

Spec == Init /\ [][Next]_vars

\* A graph of n vertices as some sequence of add_edge calls leaves it: any
\* set of edges and self-loops, the matrix symmetric.
BuiltGraph(n, E) ==
    /\ num_vertices = n
    /\ adj_matrix = [u \in 0 .. (n - 1) |->
                        [v \in 0 .. (n - 1) |-> <<u, v>> \in E \/ <<v, u>> \in E]]

SearchInit ==
    /\ \E n \in 0 .. MaxN :
           \E E \in SUBSET {e \in (0 .. (n - 1)) \X (0 .. (n - 1)) : e[1] <= e[2]} :
               BuiltGraph(n, E)
    /\ pc = "build"
    /\ stack = <<>>
    /\ cliques = <<>>
    /\ ignored = FALSE

SearchNext ==
    \/ find_max_cliques
    \/ SearchStep

\* One call of find_max_cliques on any graph that can be built.  The search
\* is a synchronous recursion with nothing to wait for: once called it keeps
\* taking steps.
FairSpec == SearchInit /\ [][SearchNext]_vars /\ WF_vars(SearchStep)

\* The search with the pivot taken among all maximum-degree vertices of P and
\* the branching set visited in any order, on graphs built without self-loops.
AnyOrderNext ==
    \/ \E u, v \in Args : u # v /\ add_edge(u, v)
    \/ find_max_cliques
    \/ RecordClique
    \/ ReturnNoCandidate
    \/ pc = "search" /\ \E u \in pivot_choices(Top.P) : SelectPivot(u)
    \/ pc = "search" /\ \E v \in Top.todo : Branch(v)
    \/ AfterChild
    \/ LoopEnd

AnyOrderSpec == Init /\ [][AnyOrderNext]_vars

----------------------------------------------------------------------------
\* Graph theory the claims are stated in

\* No self-loop.  (add_edge keeps the matrix symmetric.)
Simple == \A v \in Vertices : ~adj_matrix[v][v]

PairwiseAdjacent(C) == \A a, b \in C : a # b => adj_matrix[a][b]

\* Cliques are non-empty: the empty set is never reported, n = 0 included.
IsClique(C) == C # {} /\ C \subseteq Vertices /\ PairwiseAdjacent(C)

MaximalCliques ==
    {C \in SUBSET Vertices :
        IsClique(C) /\ \A D \in SUBSET Vertices : (C \subseteq D /\ IsClique(D)) => D = C}

Returned == {cliques[i] : i \in 1 .. Len(cliques)}

Occurrences(C) == Cardinality({i \in 1 .. Len(cliques) : cliques[i] = C})

Isolated(v) == \A w \in Vertices : ~adj_matrix[v][w] /\ ~adj_matrix[w][v]

----------------------------------------------------------------------------
\* Claims

\* C1 (completeness): on a graph without self-loops, when find_max_cliques
\* has returned, every maximal clique of the graph occurs exactly once in the
\* returned vector, and no set occurs twice.
C1_Completeness ==
    (pc = "done" /\ Simple) =>
        /\ \A C \in MaximalCliques : Occurrences(C) = 1
        /\ \A i, j \in 1 .. Len(cliques) : cliques[i] = cliques[j] => i = j

\* The square 0-1-2-3-0 has been searched: four maximal cliques.
C1_Witness ==
    /\ pc = "done" /\ Simple /\ num_vertices = 4
    /\ Cardinality(MaximalCliques) = 4
    /\ Len(cliques) = 4

\* C2 (soundness): on a graph without self-loops every set recorded in
\* 'cliques' is a clique, no vertex outside it is adjacent to all its members,
\* and it is not a proper subset of another clique.
C2_Soundness ==
    Simple =>
        \A i \in 1 .. Len(cliques) :
            /\ IsClique(cliques[i])
            /\ \A w \in Vertices \ cliques[i] : \E a \in cliques[i] : ~adj_matrix[a][w]
            /\ \A D \in SUBSET Vertices :
                   (cliques[i] \subseteq D /\ D # cliques[i]) => ~PairwiseAdjacent(D)

\* Two triangles sharing an edge have been returned.
C2_Witness ==
    /\ pc = "done" /\ Simple /\ Len(cliques) = 2
    /\ \A i \in 1 .. 2 : Cardinality(cliques[i]) = 3

\* C3 (isolated vertices): when find_max_cliques has returned, in any graph,
\* a vertex with no incident edge has its singleton in the result and is in no
\* other returned set; with n > 0 and no edge at all the result is exactly the
\* n singletons.
C3_IsolatedVertices ==
    pc = "done" =>
        /\ \A v \in Vertices : Isolated(v) =>
               /\ Occurrences({v}) >= 1
               /\ \A i \in 1 .. Len(cliques) : v \in cliques[i] => cliques[i] = {v}
        /\ (num_vertices > 0 /\ \A v \in Vertices : Isolated(v)) =>
               /\ Returned = {{v} : v \in Vertices}
               /\ Len(cliques) = num_vertices

\* A triangle and an isolated vertex have been searched.
C3_Witness ==
    /\ pc = "done" /\ num_vertices = 4
    /\ \E v \in Vertices : Isolated(v) /\ {v} \in Returned
    /\ \E i \in 1 .. Len(cliques) : Cardinality(cliques[i]) = 3

\* C4 (empty graph): with n = 0 no frame of bron_kerbosch ever exists and
\* nothing is ever recorded, so find_max_cliques returns the empty vector.
C4_EmptyGraph == num_vertices = 0 => (stack = <<>> /\ cliques = <<>>)

\* find_max_cliques has returned on the graph of no vertices.
C4_Witness == num_vertices = 0 /\ pc = "done"

\* C5 (out-of-range edges): a step add_edge(u, v) with u or v outside [0, n)
\* leaves the adjacency matrix (and the vertex count) unchanged: a step that
\* changes either is add_edge(u, v) for no out-of-range u, v.
C5_OutOfRangeIgnored ==
    [][\/ (adj_matrix' = adj_matrix /\ num_vertices' = num_vertices)
       \/ \A u, v \in Args : ~InRange(u, v) => ~add_edge(u, v)]_vars

\* An out-of-range call was made on a graph that has edges, and the search
\* returned afterwards.
C5_Witness ==
    /\ ignored /\ pc = "done"
    /\ \E u, v \in Vertices : adj_matrix[u][v]
    /\ Len(cliques) > 0

FrameInvariant(f) ==
    /\ \A w \in f.P \cup f.X : \A r \in f.R : adj_matrix[w][r]
    /\ f.P \cap f.X = {}
    /\ PairwiseAdjacent(f.R)

\* C6 (search-state invariant): on a graph without self-loops, in every active
\* call of bron_kerbosch, at entry and after every move of a vertex from P to
\* X, every vertex of P \cup X is adjacent to every vertex of R, P and X are
\* disjoint, and R is pairwise adjacent.
C6_SearchInvariant ==
    Simple => \A i \in 1 .. Len(stack) : FrameInvariant(stack[i])

\* A nested call has moved a vertex to X and still has candidates.
C6_Witness ==
    /\ Simple /\ pc = "search" /\ Len(stack) >= 2
    /\ Top.at = "loop" /\ Top.R # {} /\ Top.P # {} /\ Top.X # {}

\* Every call's R is its caller's R with the branched vertex added, so |R|
\* is the depth of the call, and the depth is at most n.
DepthInvariant ==
    /\ Len(stack) <= num_vertices + 1
    /\ \A i \in 1 .. Len(stack) :
           /\ Cardinality(stack[i].R) = i - 1
           /\ i > 1 => /\ stack[i - 1].v \notin stack[i - 1].R
                       /\ stack[i].R = stack[i - 1].R \cup {stack[i - 1].v}

\* C7 (termination): once called, find_max_cliques returns; every call of
\* bron_kerbosch has R one vertex larger than its caller's, |R| is the depth of
\* the call and the depth never exceeds n.
\* pc leaves "search" only for "done", so the search returns exactly when it is
\* not in progress for ever.
C7_Termination == []DepthInvariant /\ []<>(pc # "search")

\* The recursion has reached depth n on a graph of at least three vertices.
C7_Witness == num_vertices >= 3 /\ Len(stack) = num_vertices + 1

\* C8 (order and tie-break independence): on a graph without self-loops,
\* whichever maximum-degree vertex of P is the pivot and in whichever order
\* the branching set is visited, the sets returned are the maximal cliques
\* of the graph, each once: the set the code's own choices return (C1, C2).
C8_OrderIndependence ==
    (pc = "done" /\ Simple) =>
        /\ Returned = MaximalCliques
        /\ Len(cliques) = Cardinality(MaximalCliques)

\* The square 0-1-2-3-0 searched in an order the code does not take: the code
\* emits {0,1} first.
C8_Witness ==
    /\ pc = "done" /\ num_vertices = 4
    /\ \A a, b \in Vertices :
           adj_matrix[a][b] <=> (a - b) \in {1, -1, 3, -3}
    /\ cliques[1] = {2, 3}

\* A step of the search changes R of no active call, and changes P and X only
\* in the call on top of the stack when it resumes after a child: v leaves P
\* and enters X.
FrameStep ==
    pc = "search" =>
        /\ adj_matrix' = adj_matrix
        /\ \A i \in 1 .. Len(stack) :
               i <= Len(stack') =>
                   /\ stack'[i].R = stack[i].R
                   /\ \/ stack'[i].P = stack[i].P /\ stack'[i].X = stack[i].X
                      \/ /\ i = Len(stack) /\ stack[i].at = "after"
                         /\ stack[i].v \in stack[i].P
                         /\ stack'[i].P = stack[i].P \ {stack[i].v}
                         /\ stack'[i].X = stack[i].X \cup {stack[i].v}

\* P \cup X of a call is what it was at entry; when its loop is over, the
\* vertices of the entry P that are not neighbours of the pivot are the ones
\* that moved from P to X.
FrameEffect ==
    \A i \in 1 .. Len(stack) :
        LET f == stack[i]
        IN  /\ f.P \cup f.X = f.P0 \cup f.X0
            /\ f.X0 \subseteq f.X /\ f.P \subseteq f.P0
            /\ (f.at = "loop" /\ f.todo = {}) =>
                   /\ f.X \ f.X0 = {w \in f.P0 : ~adj_matrix[w][f.u]}
                   /\ f.P0 \ f.P = {w \in f.P0 : ~adj_matrix[w][f.u]}

\* C9 (frame ownership): a child call never changes its caller's R, P or X;
\* R never changes; P and X change only by the move of the branched vertex
\* after its child call returned; at return P \cup X is as at entry and exactly
\* (entry P) \ N(pivot) has moved; the search never writes the matrix.
C9_FrameOwnership == [][FrameStep]_vars /\ []FrameEffect

\* A nested call is about to return after moving two vertices.
C9_Witness ==
    /\ pc = "search" /\ Len(stack) >= 2
    /\ Top.at = "loop" /\ Top.todo = {}
    /\ Cardinality(Top.X \ Top.X0) >= 2

\* C10 (self-loops have no effect): whatever calls add_edge(v, v) were made,
\* find_max_cliques returns the maximal cliques of the graph with the
\* self-loops disregarded.
C10_SelfLoopNoEffect == pc = "done" => Returned = MaximalCliques

====
